---------------------------- MODULE Spec2Model ----------------------------
(***************************************************************************)
(* Model of src/performance_optimization.py and src/security_fixes.py:     *)
(* CacheManager (get_cache_key, cache_result, invalidate_pattern) over a   *)
(* Redis store with TTL; the Celery tasks registered by                    *)
(* AsyncProcessor._register_tasks, with their time limits;                 *)
(* PerformanceMonitor (track_time, get_statistics);                        *)
(* DatabaseOptimizer.optimized_session;                                    *)
(* AIServiceOptimizer.analyze_images_batch; the validators                 *)
(* validate_file_upload and validate_estimate_input; and require_auth.     *)
(*                                                                         *)
(* Each component has a specification of its own over the same variables;  *)
(* the variables of the other components stay as constructed.              *)
(*                                                                         *)
(* Text is modelled as a sequence of tokens (short strings); a token       *)
(* stands for one or more characters that the code never splits.           *)
(***************************************************************************)
EXTENDS Integers, Sequences, FiniteSets, TLC

VARIABLES
    kin,      \* key derivation: the two inputs under comparison
    kout,     \* key derivation: what get_cache_key returned for them
    store,    \* Redis: key -> entry, or NoEntry
    hist,     \* history: per key, the last setex (time, ttl, value), cleared by delete
    now,      \* wall clock (seconds, scaled)
    up,       \* whether the Redis server is reachable
    call,     \* per caller: the cache_result wrapper's position and locals
    ncalls,   \* number of wrapper calls started so far
    jobs,     \* Celery result backend: task id -> state and result field
    exec,     \* per task id: where its message or its execution stands
    mon,      \* PerformanceMonitor: metrics, the open scopes, the clock
    upload,   \* validate_file_upload: the file, and what the call returned
    est,      \* validate_estimate_input: the data, and what the call returned
    sess,     \* optimized_session: per use, its position and the calls on its session
    ai,       \* analyze_images_batch: the cache of analyses, the batch and its tasks
    auth      \* require_auth: the request's header, and how the request ended

vars == <<kin, kout, store, hist, now, up, call, ncalls, jobs, exec, mon, upload, est, sess, ai, auth>>

keyVars == <<kin, kout>>
cacheVars == <<store, hist, now, up, call, ncalls>>
jobVars == <<jobs, exec>>
monVars == <<mon>>
uploadVars == <<upload>>
estimateVars == <<est>>
sessionVars == <<sess>>
aiVars == <<ai>>
authVars == <<auth>>

\* What the actions of one component leave alone: the other components.
outsideKey == <<cacheVars, jobVars, monVars, uploadVars, estimateVars, sessionVars, aiVars, authVars>>
outsideCache == <<keyVars, jobVars, monVars, uploadVars, estimateVars, sessionVars, aiVars, authVars>>
outsideJobs == <<keyVars, cacheVars, monVars, uploadVars, estimateVars, sessionVars, aiVars, authVars>>
outsideMon == <<keyVars, cacheVars, jobVars, uploadVars, estimateVars, sessionVars, aiVars, authVars>>
outsideUpload == <<keyVars, cacheVars, jobVars, monVars, estimateVars, sessionVars, aiVars, authVars>>
outsideEstimate == <<keyVars, cacheVars, jobVars, monVars, uploadVars, sessionVars, aiVars, authVars>>
outsideSession == <<keyVars, cacheVars, jobVars, monVars, uploadVars, estimateVars, aiVars, authVars>>
outsideAi == <<keyVars, cacheVars, jobVars, monVars, uploadVars, estimateVars, sessionVars, authVars>>
outsideAuth == <<keyVars, cacheVars, jobVars, monVars, uploadVars, estimateVars, sessionVars, aiVars>>

(***************************************************************************)
(* Python values, str() and eval()                                         *)
(***************************************************************************)

\* A value is [t |-> type tag, v |-> token sequence of its literal content].
PyNone == [t |-> "none", v |-> <<>>]
PyInt(d) == [t |-> "int", v |-> <<d>>]
PyStr(s) == [t |-> "str", v |-> s]
PyList(s) == [t |-> "list", v |-> s]
PyDict(s) == [t |-> "dict", v |-> s]

Digits == {"0", "1", "2"}

\* str(x): a str is its own text (no quotes), None is "None", an int its
\* digits, a list "[...]" and a dict "{...}".
str(x) ==
    CASE x.t = "str"  -> x.v
      [] x.t = "int"  -> x.v
      [] x.t = "none" -> <<"None">>
      [] x.t = "list" -> <<"[">> \o x.v \o <<"]">>
      [] x.t = "dict" -> <<"{">> \o x.v \o <<"}">>

\* The literal content of a list or dict display: empty, or one int literal.
IsLiteralBody(s) == s = <<>> \/ (Len(s) = 1 /\ s[1] \in Digits)

EvalError == [t |-> "error", v |-> <<"NameError">>]

\* eval(text): evaluates the text as a Python expression.  A bare word is a
\* name lookup and raises NameError; digits are an int; None is None.
eval(s) ==
    IF s = <<"None">> THEN PyNone
    ELSE IF Len(s) = 1 /\ s[1] \in Digits THEN PyInt(s[1])
    ELSE IF Len(s) >= 2 /\ s[1] = "[" /\ s[Len(s)] = "]"
            /\ IsLiteralBody(SubSeq(s, 2, Len(s) - 1))
         THEN PyList(SubSeq(s, 2, Len(s) - 1))
    ELSE IF Len(s) >= 2 /\ s[1] = "{" /\ s[Len(s)] = "}"
            /\ IsLiteralBody(SubSeq(s, 2, Len(s) - 1))
         THEN PyDict(SubSeq(s, 2, Len(s) - 1))
    ELSE EvalError

(***************************************************************************)
(* CacheManager.get_cache_key                                              *)
(***************************************************************************)

\* Keyword names in lexicographic order: sorted() compares the (name, value)
\* tuples, and names are unique in a dict, so the name alone decides.
NamesInOrder == <<"k", "m">>
Names == {NamesInOrder[i] : i \in 1..Len(NamesInOrder)}
NameRank(n) == CHOOSE i \in 1..Len(NamesInOrder) : NamesInOrder[i] = n

RECURSIVE InsertItem(_, _)
InsertItem(item, sorted) ==
    IF sorted = <<>> THEN <<item>>
    ELSE IF NameRank(item[1]) <= NameRank(Head(sorted)[1])
         THEN <<item>> \o sorted
         ELSE <<Head(sorted)>> \o InsertItem(item, Tail(sorted))

RECURSIVE SortedItems(_)
\* sorted(kwargs.items()): the pairs in ascending order of name.
SortedItems(items) ==
    IF items = <<>> THEN <<>>
    ELSE InsertItem(Head(items), SortedItems(Tail(items)))

\* Faulty variant: the pairs are taken in insertion order (kwargs.items() unsorted).
KwargItemsUnsorted(items) == items

\* The order in which get_cache_key visits the keyword pairs (line 61).
KwargItems(items) == SortedItems(items)

RECURSIVE Join(_, _)
\* sep.join(parts)
Join(sep, parts) ==
    IF parts = <<>> THEN <<>>
    ELSE IF Len(parts) = 1 THEN parts[1]
    ELSE parts[1] \o sep \o Join(sep, Tail(parts))

\* key_parts (lines 60-61): str(arg) for each positional value, then
\* "name:value" for each keyword pair in sorted order.
key_parts(args, kwargs) ==
    [i \in 1..Len(args) |-> str(args[i])]
    \o [i \in 1..Len(kwargs) |->
            <<KwargItems(kwargs)[i][1]>> \o <<":">> \o str(KwargItems(kwargs)[i][2])]

\* key_string (line 62)
key_string(args, kwargs) == Join(<<":">>, key_parts(args, kwargs))

\* hashlib.md5(...).hexdigest(), taken as collision-free: the digest of a
\* text is the text behind a marker token, so equal digests mean equal texts.
md5(s) == <<"md5">> \o s

get_cache_key(args, kwargs) == md5(key_string(args, kwargs))


\* ---- inputs of the key derivation ----

MaxArgs == 2

ArgValues ==
    {PyStr(<<"a">>), PyStr(<<"b">>), PyStr(<<"a", ":", "b">>), PyStr(<<"k", ":", "v">>)}

PositionalSeqs == UNION {[1..n -> ArgValues] : n \in 0..MaxArgs}

KwValues == {PyStr(<<"v">>)}

\* A dict in insertion order: pairs <<name, value>> with distinct names.
KwargSeqs ==
    {s \in UNION {[1..n -> Names \X KwValues] : n \in 0..Cardinality(Names)} :
        \A i, j \in DOMAIN s : i # j => s[i][1] # s[j][1]}

KeyInputs == [args : PositionalSeqs, kwargs : KwargSeqs]

NoKeys == [done |-> FALSE]

\* Two inputs have the same named mapping when they hold the same pairs.
SameMapping(x, y) == {x[i] : i \in DOMAIN x} = {y[i] : i \in DOMAIN y}

SameContent(x, y) == x.args = y.args /\ SameMapping(x.kwargs, y.kwargs)

(***************************************************************************)
(* Redis: get, setex, scan_iter, delete                                    *)
(***************************************************************************)

NoEntry == [set |-> FALSE]
NoHist == [set |-> FALSE]
Nil == [some |-> FALSE, v |-> <<>>]
Some(text) == [some |-> TRUE, v |-> text]

\* GET key: the stored text, or nil.  Expired entries have been removed.
redis_get(s, k) == IF s[k].set THEN Some(s[k].val) ELSE Nil

\* Faulty variant: SET ... NX, which leaves an existing entry as it is.
redis_setex_nx(s, k, ttl, text, t) ==
    IF s[k].set THEN s
    ELSE [s EXCEPT ![k] = [set |-> TRUE, val |-> text, exp |-> t + ttl]]

\* Faulty variant: SET ... KEEPTTL, which overwrites the value and keeps an existing
\* entry's expiry.
redis_setex_keepttl(s, k, ttl, text, t) ==
    [s EXCEPT ![k] = [set |-> TRUE, val |-> text,
                      exp |-> IF s[k].set THEN s[k].exp ELSE t + ttl]]

\* SETEX key ttl text at time t: overwrites, and expires ttl seconds later.
redis_setex(s, k, ttl, text, t) ==
    [s EXCEPT ![k] = [set |-> TRUE, val |-> text, exp |-> t + ttl]]

\* SET key text: overwrites, with no expiry (TTL reports -1).
redis_set(s, k, text) == [s EXCEPT ![k] = [set |-> TRUE, val |-> text, exp |-> -1]]

\* The server drops every entry whose expiry time has come.
redis_expire(s, t) ==
    [k \in DOMAIN s |->
        IF s[k].set /\ s[k].exp >= 0 /\ s[k].exp <= t THEN NoEntry ELSE s[k]]

RECURSIVE GlobMatch(_, _)
\* MATCH pattern: "*" stands for any run of tokens, any other token for itself.
GlobMatch(pat, s) ==
    IF pat = <<>> THEN s = <<>>
    ELSE IF Head(pat) = "*"
         THEN GlobMatch(Tail(pat), s) \/ (s # <<>> /\ GlobMatch(pat, Tail(s)))
         ELSE s # <<>> /\ Head(s) = Head(pat) /\ GlobMatch(Tail(pat), Tail(s))

\* scan_iter(match=pat): the keys present that match.
redis_scan(s, pat) == {k \in DOMAIN s : s[k].set /\ GlobMatch(pat, k)}

redis_delete(s, ks) == [k \in DOMAIN s |-> IF k \in ks THEN NoEntry ELSE s[k]]

(***************************************************************************)
(* CacheManager.cache_result and invalidate_pattern                        *)
(***************************************************************************)

MaxTime == 3
MaxCalls == 3

\* The decorator's timeout (seconds, scaled) and key_prefix.
Timeout == 2
KeyPrefix == <<"estimate">>

\* CACHE_KEY_PREFIX of the Flask-Caching backend, which invalidate_pattern
\* puts before its pattern.
AppNamespace == <<"estimation_app", ":">>

Procs == {1, 2}

\* The one caller of the sequential specification.
Callers == {1}

\* The argument lists the decorated function is called with.
CallInputs ==
    {[args |-> <<PyStr(<<"a">>)>>, kwargs |-> <<>>],
     [args |-> <<PyStr(<<"b">>)>>, kwargs |-> <<>>]}

\* What the decorated function may return.
ReturnValues ==
    {PyNone, PyInt("1"), PyStr(<<>>), PyStr(<<"1">>), PyStr(<<"hello">>),
     PyList(<<"1">>), PyDict(<<>>)}

\* What it returns in the concurrent specification.
ConcValues == {PyInt("1"), PyInt("2"), PyStr(<<>>)}

\* cache_key (line 71)
cache_key(inp) == KeyPrefix \o <<":">> \o get_cache_key(inp.args, inp.kwargs)

ResultKeys == {cache_key(inp) : inp \in CallInputs}

\* Keys of other users of the same Redis database: a Flask-Caching entry
\* under the application's prefix, and an entry of another application.
FlaskKey == AppNamespace \o <<"estimate", ":", "x">>
OtherKey == <<"other_app", ":", "estimate", ":", "x">>

StoreKeys == ResultKeys \cup {FlaskKey, OtherKey}

Patterns == {<<"estimate", ":", "*">>, <<"*">>}

IdleCall == [pc |-> "idle"]

\* Python truth of the value returned by redis_client.get: None and the
\* empty string are false.
Truthy(got) == got.some /\ got.v # <<>>

\* The hit test of the wrapper, "if cached:" (line 75).
IsHit(got) == Truthy(got)

\* Faulty variant: the entry is written with SET ... NX.
wrapper_setex_nx(s, k, text, t) == redis_setex_nx(s, k, Timeout, text, t)

\* Faulty variant: the entry is written with SET ... KEEPTTL.
wrapper_setex_keepttl(s, k, text, t) == redis_setex_keepttl(s, k, Timeout, text, t)

\* self.redis_client.setex(cache_key, timeout, str(result)) (lines 81-85)
wrapper_setex(s, k, text, t) == redis_setex(s, k, Timeout, text, t)

\* wrapper entry (lines 69-71): the key is derived from the arguments.
Start(p, inp) ==
    /\ call[p].pc = "idle"
    /\ ncalls < MaxCalls
    /\ ncalls' = ncalls + 1
    /\ call' = [call EXCEPT ![p] =
                    [pc |-> "get", key |-> cache_key(inp), computed |-> 0, writes |-> 0]]
    /\ UNCHANGED <<outsideCache, store, hist, now, up>>

\* redis_client.get and the hit branch (lines 74-77).  An unreachable server
\* makes get raise ConnectionError, which nothing in the wrapper catches.
\* live, stale, orig and overlap record what held at the read.
Get(p) ==
    /\ call[p].pc = "get"
    /\ LET c == call[p]
           got == redis_get(store, c.key)
           seen == [live |-> hist[c.key].set /\ now < hist[c.key].at + Timeout,
                    stale |-> hist[c.key].set /\ now >= hist[c.key].at + Timeout,
                    orig |-> IF hist[c.key].set THEN hist[c.key].orig ELSE PyNone,
                    overlap |-> \E q \in Procs \ {p} :
                                    /\ call[q].pc \in {"compute", "setex"}
                                    /\ call[q].key = c.key]
       IN  call' = [call EXCEPT ![p] =
                IF ~up
                THEN [pc |-> "done", key |-> c.key, computed |-> c.computed,
                      writes |-> c.writes, outcome |-> "ConnectionError",
                      ret |-> PyNone, live |-> FALSE, stale |-> FALSE,
                      orig |-> PyNone, overlap |-> FALSE]
                ELSE IF IsHit(got)
                THEN [pc |-> "done", key |-> c.key, computed |-> c.computed,
                      writes |-> c.writes,
                      outcome |-> IF eval(got.v) = EvalError THEN "EvalError" ELSE "hit",
                      ret |-> eval(got.v), live |-> seen.live, stale |-> seen.stale,
                      orig |-> seen.orig, overlap |-> seen.overlap]
                ELSE [pc |-> "compute", key |-> c.key, computed |-> c.computed,
                      writes |-> c.writes, live |-> seen.live, stale |-> seen.stale,
                      orig |-> seen.orig, overlap |-> seen.overlap]]
    /\ UNCHANGED <<outsideCache, store, hist, now, up, ncalls>>

\* result = func(*args, **kwargs) (line 80)
Compute(p, v) ==
    /\ call[p].pc = "compute"
    /\ call' = [call EXCEPT ![p] =
                    [pc |-> "setex", key |-> call[p].key,
                     computed |-> call[p].computed + 1, writes |-> call[p].writes,
                     live |-> call[p].live, stale |-> call[p].stale,
                     orig |-> call[p].orig, overlap |-> call[p].overlap,
                     result |-> v]]
    /\ UNCHANGED <<outsideCache, store, hist, now, up, ncalls>>

\* redis_client.setex and return result (lines 81-88).  An unreachable server
\* makes setex raise ConnectionError.
Setex(p) ==
    /\ call[p].pc = "setex"
    /\ LET c == call[p]
           fin(o, r, w) ==
               [pc |-> "done", key |-> c.key, computed |-> c.computed, writes |-> w,
                outcome |-> o, ret |-> r, live |-> c.live, stale |-> c.stale,
                orig |-> c.orig, overlap |-> c.overlap]
       IN  IF ~up
           THEN /\ call' = [call EXCEPT ![p] = fin("ConnectionError", PyNone, c.writes)]
                /\ UNCHANGED <<store, hist>>
           ELSE /\ store' = wrapper_setex(store, c.key, str(c.result), now)
                /\ hist' = [hist EXCEPT ![c.key] =
                               [set |-> TRUE, at |-> now, orig |-> c.result, by |-> p]]
                /\ call' = [call EXCEPT ![p] = fin("miss", c.result, c.writes + 1)]
    /\ UNCHANGED <<outsideCache, now, up, ncalls>>

\* The wrapper has returned (or raised) and the caller is free to call again.
Return(p) ==
    /\ call[p].pc = "done"
    /\ call' = [call EXCEPT ![p] = IdleCall]
    /\ UNCHANGED <<outsideCache, store, hist, now, up, ncalls>>

\* The pattern handed to scan_iter: f"estimation_app:{pattern}" (line 94).
scan_pattern(pattern) == AppNamespace \o pattern

\* invalidate_pattern (lines 92-95): delete every key the scan yields.
invalidate_pattern(pattern) ==
    /\ up
    /\ LET found == redis_scan(store, scan_pattern(pattern))
       IN  /\ store' = redis_delete(store, found)
           /\ hist' = [k \in DOMAIN hist |-> IF k \in found THEN NoHist ELSE hist[k]]
    /\ UNCHANGED <<outsideCache, now, up, call, ncalls>>

\* Another user of the database (Flask-Caching, another application) writes
\* one of its keys, with no expiry.
ExternalSet(k) ==
    /\ up
    /\ ~store[k].set
    /\ store' = redis_set(store, k, <<"x">>)
    /\ UNCHANGED <<outsideCache, hist, now, up, call, ncalls>>

\* A second passes; the server drops the entries that expire.
Tick ==
    /\ now < MaxTime
    /\ now' = now + 1
    /\ store' = redis_expire(store, now + 1)
    /\ UNCHANGED <<outsideCache, hist, up, call, ncalls>>

\* The connection to the Redis server is lost, or comes back.
Disconnect ==
    /\ up
    /\ up' = FALSE
    /\ UNCHANGED <<outsideCache, store, hist, now, call, ncalls>>

Reconnect ==
    /\ ~up
    /\ up' = TRUE
    /\ UNCHANGED <<outsideCache, store, hist, now, call, ncalls>>

\* get_cache_key applied to both inputs (lines 58-63); nothing else changes.
DeriveKeys ==
    /\ ~kout.done
    /\ kout' = [done |-> TRUE,
                a |-> get_cache_key(kin.a.args, kin.a.kwargs),
                b |-> get_cache_key(kin.b.args, kin.b.kwargs),
                sa |-> key_string(kin.a.args, kin.a.kwargs),
                sb |-> key_string(kin.b.args, kin.b.kwargs)]
    /\ UNCHANGED <<kin, outsideKey>>

(***************************************************************************)
(* AsyncProcessor: the Celery tasks and the states the backend reports     *)
(***************************************************************************)

MaxItems == 2
MaxRuns == 2

JobIds == {1, 2}

TaskNames == {"process_image", "generate_pdf", "batch_process"}

\* What a call made by a task does: it returns, or it raises an error that
\* a later attempt could get past (a timeout of the AI service, a lost
\* connection), or one that no later attempt gets past (a missing file).
Outcomes == {"ok", "transient", "permanent"}

\* task_time_limit=300 and task_soft_time_limit=240 (lines 119-120), in
\* the minutes the source's comments give them in: the time of an execution
\* is counted in minutes.
task_time_limit == 5
task_soft_time_limit == 4

\* The backend's result field: nothing, the meta of update_state, the
\* task's return value, or the exception it raised.  cur and tot are the
\* progress counters of a batch (in a return value, cur is len(results)),
\* res the results list of the return value.
NoResult == [kind |-> "none", cur |-> 0, tot |-> 0, res |-> <<>>]
Meta(cur, tot) == [kind |-> "meta", cur |-> cur, tot |-> tot, res |-> <<>>]
Returned(cur, tot) == [kind |-> "return", cur |-> cur, tot |-> tot, res |-> <<>>]
ReturnedResults(res, tot) == [kind |-> "return", cur |-> Len(res), tot |-> tot, res |-> res]
Raised == [kind |-> "error", cur |-> 0, tot |-> 0, res |-> <<>>]

\* Faulty variant: task_track_started left at Celery's default.
TrackStartedOff == FALSE

\* task_track_started=True (line 118): the worker reports STARTED when it
\* begins to execute a task.
TrackStarted == TRUE

\* An execution of a task: where it is (pc), the task and the number of
\* items of a batch (name, n), the loop index and the results list (i, res),
\* the executions so far (runs), the time this execution has taken (t), the
\* error that ended it (cause), the progress it has published (pub), how
\* often its effect on the estimate or the report was applied (applied), and
\* whether that ever happened at or after the hard time limit (late).
NoExec ==
    [pc |-> "unsent", name |-> "none", n |-> 0, i |-> 0, res |-> <<>>, runs |-> 0,
     t |-> 0, cause |-> "none", pub |-> <<>>, applied |-> 0, late |-> FALSE]

\* celery.send_task(name, args) (lines 479-482): a message with a fresh task
\* id is queued; until a worker reports otherwise the backend says PENDING.
send_task(j, name, n) ==
    /\ exec[j].pc = "unsent"
    /\ exec' = [exec EXCEPT ![j] = [NoExec EXCEPT !.pc = "queued", !.name = name, !.n = n]]
    /\ UNCHANGED <<jobs, outsideJobs>>

\* A worker takes the message and begins to execute the task.
PickUp(j) ==
    /\ exec[j].pc = "queued"
    /\ exec' = [exec EXCEPT ![j].pc =
                   IF exec[j].name = "batch_process" THEN "loop" ELSE "update_state",
                                ![j].i = 0,
                                ![j].res = <<>>,
                                ![j].t = 0,
                                ![j].cause = "none",
                                ![j].pub = <<>>,
                                ![j].runs = exec[j].runs + 1]
    /\ jobs' = IF TrackStarted
               THEN [jobs EXCEPT ![j] = [state |-> "STARTED", result |-> NoResult]]
               ELSE jobs
    /\ UNCHANGED outsideJobs

\* Faulty variant: the except clause swallows the error and the task
\* returns its 'completed' value.
TaskSwallows(j, cause) ==
    /\ exec' = [exec EXCEPT ![j].pc = "finished", ![j].cause = cause]
    /\ jobs' = [jobs EXCEPT ![j] = [state |-> "SUCCESS", result |-> Returned(0, 0)]]

\* The task raised: the worker stores FAILURE with the exception.  In
\* process_image_task and generate_pdf_task the except clause logs and
\* re-raises (lines 145-147, 160-162); batch_process_task has no handler.
\* No task is declared with autoretry_for or calls self.retry, so the
\* message is acknowledged and the task is not executed again.
TaskRaises(j, cause) ==
    /\ exec' = [exec EXCEPT ![j].pc = "finished", ![j].cause = cause]
    /\ jobs' = [jobs EXCEPT ![j] = [state |-> "FAILURE", result |-> Raised]]

\* The task returned: the worker stores SUCCESS with the return value.
TaskReturns(j, value) ==
    /\ exec' = [exec EXCEPT ![j].pc = "finished"]
    /\ jobs' = [jobs EXCEPT ![j] = [state |-> "SUCCESS", result |-> value]]

\* self.update_state(state, meta): written to the backend as it is.
update_state(j, state, meta) ==
    jobs' = [jobs EXCEPT ![j] = [state |-> state, result |-> meta]]

\* process_image_task, line 135
process_image_update_state(j) ==
    /\ exec[j].pc = "update_state" /\ exec[j].name = "process_image"
    /\ update_state(j, "PROCESSING", Meta(0, 0))
    /\ exec' = [exec EXCEPT ![j].pc = "analyze"]
    /\ UNCHANGED outsideJobs

\* process_image_task, line 138: analyze_image_with_ai returns or raises.
analyze_image_with_ai(j, out) ==
    /\ exec[j].pc = "analyze"
    /\ IF out = "ok" THEN /\ exec' = [exec EXCEPT ![j].pc = "update_db"]
                          /\ UNCHANGED jobs
                     ELSE TaskRaises(j, out)
    /\ UNCHANGED outsideJobs

\* The effect of a task on the estimate or on the report is applied once
\* more, at the time the execution has reached.
Applied(e) ==
    [e EXCEPT !.applied = e.applied + 1,
              !.late = e.late \/ e.t >= task_time_limit]

\* process_image_task, line 141: update_estimate_with_results writes the
\* analysis into the estimate and returns, or raises.
update_estimate_with_results(j, out) ==
    /\ exec[j].pc = "update_db"
    /\ IF out = "ok" THEN /\ exec' = [exec EXCEPT ![j] = [Applied(exec[j]) EXCEPT !.pc = "return"]]
                          /\ UNCHANGED jobs
                     ELSE TaskRaises(j, out)
    /\ UNCHANGED outsideJobs

\* process_image_task, line 143
process_image_return(j) ==
    /\ exec[j].pc = "return" /\ exec[j].name = "process_image"
    /\ TaskReturns(j, Returned(0, 0))
    /\ UNCHANGED outsideJobs

\* generate_pdf_task, line 153
generate_pdf_update_state(j) ==
    /\ exec[j].pc = "update_state" /\ exec[j].name = "generate_pdf"
    /\ update_state(j, "GENERATING", Meta(0, 0))
    /\ exec' = [exec EXCEPT ![j].pc = "generate"]
    /\ UNCHANGED outsideJobs

\* generate_pdf_task, line 156: generate_estimate_pdf writes the report and
\* returns its path, or raises.
generate_estimate_pdf(j, out) ==
    /\ exec[j].pc = "generate"
    /\ IF out = "ok" THEN /\ exec' = [exec EXCEPT ![j] = [Applied(exec[j]) EXCEPT !.pc = "return"]]
                          /\ UNCHANGED jobs
                     ELSE TaskRaises(j, out)
    /\ UNCHANGED outsideJobs

\* generate_pdf_task, line 158
generate_pdf_return(j) ==
    /\ exec[j].pc = "return" /\ exec[j].name = "generate_pdf"
    /\ TaskReturns(j, Returned(0, 0))
    /\ UNCHANGED outsideJobs

\* Faulty variant: the progress counts from zero.
current_from_zero(i) == i

\* 'current': i + 1 (line 173)
current(i) == i + 1

\* batch_process_task, lines 170-174: the next item's progress is published.
batch_update_state(j) ==
    /\ exec[j].pc = "loop" /\ exec[j].i < exec[j].n
    /\ update_state(j, "PROCESSING", Meta(current(exec[j].i), exec[j].n))
    /\ exec' = [exec EXCEPT ![j].pc = "item",
                            ![j].pub = Append(exec[j].pub, current(exec[j].i))]
    /\ UNCHANGED outsideJobs

\* process_single_item(items[i]): the result of the item at index i, named
\* by the item's place in the input.
item_result(i) == i + 1

\* Faulty variant: the result of an item is dropped.
results_not_appended(results, result) == results

\* results.append(result) (line 178)
results_append(results, result) == Append(results, result)

\* batch_process_task, lines 177-178: process_single_item returns, and its
\* result is appended, or raises.
process_single_item(j, out) ==
    /\ exec[j].pc = "item"
    /\ IF out = "ok" THEN /\ exec' = [exec EXCEPT ![j].pc = "loop",
                                                  ![j].i = exec[j].i + 1,
                                                  ![j].res = results_append(exec[j].res, item_result(exec[j].i))]
                          /\ UNCHANGED jobs
                     ELSE TaskRaises(j, out)
    /\ UNCHANGED outsideJobs

\* batch_process_task, line 180: the loop is over.
batch_return(j) ==
    /\ exec[j].pc = "loop" /\ exec[j].i = exec[j].n
    /\ TaskReturns(j, ReturnedResults(exec[j].res, exec[j].n))
    /\ UNCHANGED outsideJobs

\* The task's code is running in a worker.
Executing(j) == exec[j].pc \notin {"unsent", "queued", "finished"}

\* Faulty variant: no hard time limit is set.
NoTimeLimit(t) == FALSE

\* task_time_limit (line 119): the worker's pool kills the process that
\* executes a task when the execution has taken this long.
HardLimitReached(t) == t >= task_time_limit

\* A minute of an execution passes.  At the hard limit the process is
\* killed where it is, and the worker stores FAILURE with TimeLimitExceeded.
JobTick(j) ==
    /\ Executing(j)
    /\ exec[j].t < task_time_limit
    /\ IF HardLimitReached(exec[j].t + 1)
       THEN /\ exec' = [exec EXCEPT ![j].pc = "finished", ![j].t = exec[j].t + 1,
                                    ![j].cause = "timeout"]
            /\ jobs' = [jobs EXCEPT ![j] = [state |-> "FAILURE", result |-> Raised]]
       ELSE /\ exec' = [exec EXCEPT ![j].t = exec[j].t + 1]
            /\ UNCHANGED jobs
    /\ UNCHANGED outsideJobs

\* task_soft_time_limit (line 120): from the soft limit on,
\* SoftTimeLimitExceeded is raised in the task's code wherever it is; being
\* an Exception, it passes through the except clauses like any other error.
\* A task that is blocked outside the interpreter does not see it and goes
\* on until the hard limit.
SoftTimeLimitExceeded(j) ==
    /\ Executing(j)
    /\ exec[j].t >= task_soft_time_limit
    /\ TaskRaises(j, "timeout")
    /\ UNCHANGED outsideJobs

\* The broker delivers the message of a finished task once more (delivery
\* is at least once), and the task will be executed again under its id.
Redeliver(j) ==
    /\ exec[j].pc = "finished"
    /\ exec[j].runs < MaxRuns
    /\ exec' = [exec EXCEPT ![j].pc = "queued"]
    /\ UNCHANGED <<jobs, outsideJobs>>

JobInit ==
    /\ jobs = [j \in JobIds |-> [state |-> "PENDING", result |-> NoResult]]
    /\ exec = [j \in JobIds |-> NoExec]

(***************************************************************************)
(* PerformanceMonitor: track_time and get_statistics                       *)
(***************************************************************************)

MaxScopes == 3

\* The instants, in seconds, at which the clock is looked at.
Instants == {0, 2, 9}

OperationNames == {"get_estimate", "create_estimate"}

\* if duration > 5 (line 390): the threshold of the slow-operation warning,
\* in seconds.
SlowSeconds == 5

\* The empty dict.
EmptyDict == [x \in {} |-> 0]

\* self.metrics[operation_name], or the empty list if the name is not a key.
Samples(metrics, name) == IF name \in DOMAIN metrics THEN metrics[name] ELSE <<>>

\* Lines 385-387: the list of the name is created if the name is not a key
\* of self.metrics, and the duration is appended to it.
append_duration(metrics, name, duration) ==
    [n \in DOMAIN metrics \cup {name} |->
        IF n = name THEN Append(Samples(metrics, name), duration) ELSE metrics[n]]

\* Faulty variant: the duration is recorded after the yield, in no finally
\* block, and so only when the block returned.
track_time_no_finally(metrics, name, duration, kind) ==
    IF kind = "return" THEN append_duration(metrics, name, duration) ELSE metrics

\* The finally block of track_time (lines 380-387): it runs whether the
\* block returned or raised.
track_time_finally(metrics, name, duration, kind) ==
    append_duration(metrics, name, duration)

\* with track_time(operation_name): the start time is taken (line 376) and
\* the block begins.  Blocks nest: scopes is the stack of the open ones.
track_time_enter(name) ==
    /\ mon.entered < MaxScopes
    /\ mon' = [mon EXCEPT !.scopes = Append(mon.scopes, [name |-> name, start |-> mon.time]),
                          !.entered = mon.entered + 1]
    /\ UNCHANGED outsideMon

\* The block of the innermost open scope returns or raises (kind).  The
\* finally block takes the duration, records it and warns if the operation
\* was slow (lines 380-391); there is no except clause, so the block's
\* exception leaves track_time as it came.
track_time_exit(kind) ==
    /\ mon.scopes # <<>>
    /\ LET scope == mon.scopes[Len(mon.scopes)]
           duration == mon.time - scope.start
       IN mon' = [mon EXCEPT
                     !.scopes = SubSeq(mon.scopes, 1, Len(mon.scopes) - 1),
                     !.metrics = track_time_finally(mon.metrics, scope.name, duration, kind),
                     !.completed = Append(mon.completed,
                                          [name |-> scope.name, duration |-> duration,
                                           kind |-> kind, leaves |-> kind,
                                           warned |-> duration > SlowSeconds])]
    /\ UNCHANGED outsideMon

\* Time passes, up to a later instant.
MonTick ==
    /\ \E t \in Instants : t > mon.time /\ mon' = [mon EXCEPT !.time = t]
    /\ UNCHANGED outsideMon

RECURSIVE py_sum(_)
py_sum(times) == IF times = <<>> THEN 0 ELSE times[1] + py_sum(Tail(times))

\* Faulty variant: the first sample is taken for the least.
first_sample(times) == times[1]

py_min(times) == CHOOSE x \in {times[i] : i \in 1..Len(times)} :
                    \A i \in 1..Len(times) : x <= times[i]

py_max(times) == CHOOSE x \in {times[i] : i \in 1..Len(times)} :
                    \A i \in 1..Len(times) : x >= times[i]

\* sum(times) / len(times): the quotient, kept as a fraction.
Quotient(a, b) == [num |-> a, den |-> b]

\* get_statistics (lines 393-405)
get_statistics(metrics, name) ==
    IF name \notin DOMAIN metrics THEN EmptyDict
    ELSE LET times == metrics[name]
         IN [count |-> Len(times),
             total |-> py_sum(times),
             average |-> Quotient(py_sum(times), Len(times)),
             min |-> py_min(times),
             max |-> py_max(times)]

\* A caller asks for the statistics of a name; at is the number of scopes
\* completed by then.
GetStatistics(name) ==
    /\ mon' = [mon EXCEPT !.stat = [asked |-> TRUE, name |-> name,
                                    at |-> Len(mon.completed),
                                    stats |-> get_statistics(mon.metrics, name)]]
    /\ UNCHANGED outsideMon

\* PerformanceMonitor.__init__ (lines 368-369)
MonInit ==
    mon = [metrics |-> EmptyDict, scopes |-> <<>>, time |-> 0, entered |-> 0,
           completed |-> <<>>,
           stat |-> [asked |-> FALSE, name |-> "none", at |-> 0, stats |-> EmptyDict]]

(***************************************************************************)
(* src/security_fixes.py: validate_file_upload                             *)
(***************************************************************************)

MaxNameLen == 4

\* MAX_FILE_SIZE = 10 * 1024 * 1024 (line 34)
MAX_FILE_SIZE == 10485760

\* ALLOWED_EXTENSIONS (line 35)
ALLOWED_EXTENSIONS == {"png", "jpg", "jpeg", "gif", "pdf"}

\* The pieces of the file names a client sends: words, the dot, the path
\* separator and a character outside [A-Za-z0-9_.-].
NameTokens == {"photo", ".", "png", "JPEG", "exe", "/", "*"}

FileNames == UNION {[1..k -> NameTokens] : k \in 0..MaxNameLen}

FileSizes == {0, 1, MAX_FILE_SIZE, MAX_FILE_SIZE + 1}

\* What the caller passes: None, or the FileStorage of the request, which is
\* at its beginning.
NoFile == [present |-> FALSE, filename |-> <<>>, size |-> 0, pos |-> 0]

Files ==
    {NoFile} \cup
    {[present |-> TRUE, filename |-> name, size |-> size, pos |-> 0] :
        name \in FileNames, size \in FileSizes}

\* The elements of s at the indices that Keep accepts, in their order.
RECURSIVE PickFrom(_, _, _)
PickFrom(s, Keep(_), i) ==
    IF i > Len(s) THEN <<>>
    ELSE (IF Keep(i) THEN <<s[i]>> ELSE <<>>) \o PickFrom(s, Keep, i + 1)

RECURSIVE LStrip(_, _)
LStrip(s, chars) == IF s # <<>> /\ s[1] \in chars THEN LStrip(Tail(s), chars) ELSE s

RECURSIVE RStrip(_, _)
RStrip(s, chars) ==
    IF s # <<>> /\ s[Len(s)] \in chars THEN RStrip(SubSeq(s, 1, Len(s) - 1), chars) ELSE s

\* werkzeug's secure_filename: path separators become spaces, the words are
\* joined with "_", characters outside [A-Za-z0-9_.-] are removed, and dots
\* and underscores are stripped from both ends.
secure_filename(filename) ==
    LET spaced == [i \in 1..Len(filename) |->
                      IF filename[i] = "/" THEN " " ELSE filename[i]]
        \* "_".join(spaced.split()): one "_" for each run of spaces between words
        Joins(i) == \/ spaced[i] # " "
                    \/ /\ i > 1 /\ spaced[i - 1] # " "
                       /\ \E k \in (i + 1)..Len(spaced) : spaced[k] # " "
        joined == [i \in 1..Len(PickFrom(spaced, Joins, 1)) |->
                      IF PickFrom(spaced, Joins, 1)[i] = " " THEN "_"
                      ELSE PickFrom(spaced, Joins, 1)[i]]
        Ascii(i) == joined[i] # "*"
    IN RStrip(LStrip(PickFrom(joined, Ascii, 1), {".", "_"}), {".", "_"})

\* Faulty variant: the extension is compared as it is written.
not_lowered(token) == token

\* str.lower() of a piece of a name
lower(token) ==
    CASE token = "JPEG" -> "jpeg"
      [] OTHER -> token

\* filename.rsplit('.', 1)[1]: what follows the last dot
AfterLastDot(filename) ==
    LET last == CHOOSE i \in 1..Len(filename) :
                    /\ filename[i] = "."
                    /\ \A k \in (i + 1)..Len(filename) : filename[k] # "."
    IN SubSeq(filename, last + 1, Len(filename))

\* allowed_file (lines 92-95).  An extension of several pieces is none of
\* the allowed words.
allowed_file(filename) ==
    /\ \E i \in 1..Len(filename) : filename[i] = "."
    /\ Len(AfterLastDot(filename)) = 1
    /\ lower(AfterLastDot(filename)[1]) \in ALLOWED_EXTENSIONS

\* `not file`: None, or a FileStorage, which is false when its filename is
\* empty.
file_is_falsy(file) == ~file.present \/ file.filename = <<>>

\* file.seek(0, os.SEEK_END); file_size = file.tell(); file.seek(0)
\* (lines 110-112): the position goes to the end and back to the start.
file_seek_end(file) == [file EXCEPT !.pos = file.size]
file_tell(file) == file.pos
file_seek_start(file) == [file EXCEPT !.pos = 0]

Invalid(reason) == [valid |-> FALSE, text |-> <<reason>>]

\* validate_file_upload (lines 97-117)
validate_file_upload ==
    /\ ~upload.done
    /\ LET file == upload.file
           filename == secure_filename(file.filename)
       IN IF file_is_falsy(file)
          THEN upload' = [upload EXCEPT !.done = TRUE, !.result = Invalid("No file provided")]
          ELSE IF filename = <<>>
          THEN upload' = [upload EXCEPT !.done = TRUE, !.result = Invalid("Invalid filename")]
          ELSE IF ~allowed_file(filename)
          THEN upload' = [upload EXCEPT !.done = TRUE, !.result = Invalid("File type not allowed")]
          ELSE LET file_size == file_tell(file_seek_end(file))
                   rewound == file_seek_start(file_seek_end(file))
               IN IF file_size > MAX_FILE_SIZE
                  THEN upload' = [done |-> TRUE, file |-> rewound,
                                  result |-> Invalid("File size exceeds limit")]
                  ELSE upload' = [done |-> TRUE, file |-> rewound,
                                  result |-> [valid |-> TRUE, text |-> filename]]
    /\ UNCHANGED outsideUpload

UploadIdle == upload = [done |-> TRUE, file |-> NoFile, result |-> Invalid("none")]

(***************************************************************************)
(* src/security_fixes.py: validate_estimate_input                          *)
(***************************************************************************)

\* The limits of lines 162, 165 and 172.
ProjectNameLimit == 200
DescriptionLimit == 1000
LaborHoursLimit == 10000

\* The values of a field of the request's JSON: the key is absent, or its
\* value is null, a text of some length that is no number, a number, or
\* NaN (which json.loads reads).
Absent == [k |-> "absent", n |-> 0]
Null == [k |-> "None", n |-> 0]
Text(n) == [k |-> "str", n |-> n]
Number(n) == [k |-> "number", n |-> n]
NaN == [k |-> "nan", n |-> 0]

ProjectNames ==
    {Absent, Null} \cup
    {Text(n) : n \in {0, 1, ProjectNameLimit - 1, ProjectNameLimit, ProjectNameLimit + 1}}

Descriptions ==
    {Absent, Null} \cup
    {Text(n) : n \in {0, 1, DescriptionLimit - 1, DescriptionLimit, DescriptionLimit + 1}}

LaborHours ==
    {Absent, Null, Text(3), NaN} \cup
    {Number(n) : n \in {0 - 1, 0, LaborHoursLimit, LaborHoursLimit + 1}}

EstimateInputs ==
    [project_name : ProjectNames, description : Descriptions, labor_hours : LaborHours]

\* `not data[field]`: None, the empty text and zero are false.
Falsy(value) ==
    \/ value.k = "None"
    \/ value.k = "str" /\ value.n = 0
    \/ value.k = "number" /\ value.n = 0

\* Lines 157-159 for one field
required(data, field) ==
    IF data[field].k = "absent" \/ Falsy(data[field])
    THEN <<"Field '" \o field \o "' is required">>
    ELSE <<>>

\* 'field' in data and len(data[field]) > limit, for a text
too_long(value, limit) == value.k = "str" /\ value.n > limit

\* len(data[field]) raises TypeError for a value without a length.
len_raises(value) == value.k \in {"None", "number", "nan"}

\* Lines 169-175
labor_hours_errors(value) ==
    CASE value.k = "absent" -> <<>>
      [] value.k \in {"None", "str"} -> <<"Labor hours must be a valid number">>
      [] value.k = "nan" -> <<>>
      [] OTHER -> IF value.n < 0 \/ value.n > LaborHoursLimit
                  THEN <<"Labor hours must be between 0 and 10000">>
                  ELSE <<>>

\* validate_estimate_input (lines 151-177)
validate_estimate_input ==
    /\ ~est.done
    /\ LET data == est.data
       IN IF len_raises(data.project_name) \/ len_raises(data.description)
          THEN est' = [est EXCEPT !.done = TRUE, !.raised = "TypeError"]
          ELSE est' = [est EXCEPT
                   !.done = TRUE,
                   !.errors =
                       required(data, "project_name") \o required(data, "description")
                       \o (IF too_long(data.project_name, ProjectNameLimit)
                           THEN <<"Project name must be less than 200 characters">> ELSE <<>>)
                       \o (IF too_long(data.description, DescriptionLimit)
                           THEN <<"Description must be less than 1000 characters">> ELSE <<>>)
                       \o labor_hours_errors(data.labor_hours)]
    /\ UNCHANGED outsideEstimate

EstimateIdle ==
    est = [done |-> TRUE, raised |-> "none", errors |-> <<>>,
           data |-> [project_name |-> Absent, description |-> Absent, labor_hours |-> Absent]]

(***************************************************************************)
(* DatabaseOptimizer.optimized_session                                     *)
(***************************************************************************)

\* The uses of `with optimized_session() as session`; each has a Session of
\* its own.
Sessions == {1, 2, 3}

\* A use: where it is (pc), the calls made on its session so far (log), how
\* the block left (block), whether commit returned (committed), the
\* exception on its way (pending) and the one that reached the caller
\* (raised).
NoSession ==
    [pc |-> "idle", log |-> <<>>, block |-> "none", committed |-> FALSE,
     pending |-> "none", raised |-> "none"]

\* session = Session(self.engine); yield session (lines 236-238)
session_enter(s) ==
    /\ sess[s].pc = "idle"
    /\ sess' = [sess EXCEPT ![s].pc = "block"]
    /\ UNCHANGED outsideSession

\* The with-block returns, or raises an Exception, which is thrown into the
\* generator at the yield.
session_block_exit(s, kind) ==
    /\ sess[s].pc = "block"
    /\ sess' = [sess EXCEPT ![s].block = kind,
                            ![s].pc = IF kind = "return" THEN "commit" ELSE "except",
                            ![s].pending = IF kind = "return" THEN "none" ELSE "block error"]
    /\ UNCHANGED outsideSession

\* session.commit() (line 239) returns or raises.
session_commit(s, ok) ==
    /\ sess[s].pc = "commit"
    /\ sess' = [sess EXCEPT ![s].log = Append(sess[s].log, "commit"),
                            ![s].committed = ok,
                            ![s].pc = IF ok THEN "finally" ELSE "except",
                            ![s].pending = IF ok THEN "none" ELSE "commit error"]
    /\ UNCHANGED outsideSession

\* Faulty variant: the except clause only re-raises.
except_without_rollback(log) == log

\* except Exception: session.rollback() (lines 240-241)
except_rollback(log) == Append(log, "rollback")

\* Lines 240-242: rollback, and raise, which passes the exception on
\* through the finally clause.
session_except(s) ==
    /\ sess[s].pc = "except"
    /\ sess' = [sess EXCEPT ![s].log = except_rollback(sess[s].log),
                            ![s].pc = "finally"]
    /\ UNCHANGED outsideSession

\* finally: session.close() (lines 243-244); then the exception on its way,
\* if any, reaches the caller.
session_finally(s) ==
    /\ sess[s].pc = "finally"
    /\ sess' = [sess EXCEPT ![s].log = Append(sess[s].log, "close"),
                            ![s].pc = "done",
                            ![s].raised = sess[s].pending]
    /\ UNCHANGED outsideSession

SessionInit == sess = [s \in Sessions |-> NoSession]

(***************************************************************************)
(* AIServiceOptimizer.analyze_images_batch                                 *)
(***************************************************************************)

MaxPaths == 2
MaxBatches == 2

\* 86400 (line 339): the TTL of a cached analysis, 24 hours in seconds.
ImageCacheTTL == 86400

\* The image files, and what they hold: two of them hold the same bytes.
ImagePaths == {"a.jpg", "b.jpg", "copy_of_a.jpg"}

ImageBytes(path) ==
    CASE path = "b.jpg" -> <<"bytes_b">>
      [] OTHER -> <<"bytes_a">>

\* _get_image_cache_key (lines 349-353)
image_cache_key(path) == <<"ai_analysis", ":">> \o md5(ImageBytes(path))

ImageKeys == {image_cache_key(path) : path \in ImagePaths}

\* What the AI service answers: a dict, or None as the placeholder of
\* _call_ai_service does.
AiResults == {PyNone, PyDict(<<>>), PyDict(<<"1">>), PyDict(<<"2">>)}

PathLists == UNION {[1..k -> ImagePaths] : k \in 0..MaxPaths}

\* Lines 313-324, for one path: the lookup, and the task created on a hit
\* (`if cached_result:`) or on a miss.  found and expect note whether the
\* key held an entry and the result whose text it was.
create_task(path) ==
    LET key == image_cache_key(path)
        cached_result == redis_get(ai.store, key)
    IN [key |-> key,
        kind |-> IF Truthy(cached_result) THEN "return_cached" ELSE "analyze_single_image",
        cached |-> cached_result.v,
        found |-> cached_result.some,
        expect |-> ai.wrote[key],
        pc |-> "created", calls |-> 0, result |-> PyNone]

\* analyze_images_batch, lines 307-324: the loop over the paths runs
\* without an await, so every lookup is made before any task runs.
analyze_images_batch(paths) ==
    /\ ai.pc \in {"idle", "returned"}
    /\ ai.batches < MaxBatches
    /\ ai' = [ai EXCEPT !.pc = "gather",
                        !.batches = ai.batches + 1,
                        !.paths = paths,
                        !.tasks = [i \in 1..Len(paths) |-> create_task(paths[i])],
                        !.finished = <<>>,
                        !.results = <<>>]
    /\ UNCHANGED outsideAi

\* _return_cached (lines 345-347): eval of the cached text.
return_cached(i) ==
    /\ ai.pc = "gather" /\ i \in 1..Len(ai.tasks)
    /\ ai.tasks[i].kind = "return_cached" /\ ai.tasks[i].pc = "created"
    /\ ai' = [ai EXCEPT !.tasks[i].pc = "done",
                        !.tasks[i].result = eval(ai.tasks[i].cached),
                        !.finished = Append(ai.finished, i)]
    /\ UNCHANGED outsideAi

\* _analyze_single_image, line 333: the task runs up to its await, the
\* request to the AI service is sent.
call_ai_service(i) ==
    /\ ai.pc = "gather" /\ i \in 1..Len(ai.tasks)
    /\ ai.tasks[i].kind = "analyze_single_image" /\ ai.tasks[i].pc = "created"
    /\ ai' = [ai EXCEPT !.tasks[i].pc = "awaiting",
                        !.tasks[i].calls = ai.tasks[i].calls + 1]
    /\ UNCHANGED outsideAi

\* _analyze_single_image, lines 333-343: the answer arrives, it is cached
\* with setex and returned.
analyze_single_image_resume(i, result) ==
    /\ ai.pc = "gather" /\ i \in 1..Len(ai.tasks)
    /\ ai.tasks[i].pc = "awaiting"
    /\ ai' = [ai EXCEPT !.store = redis_setex(ai.store, ai.tasks[i].key, ImageCacheTTL,
                                             str(result), 0),
                        !.wrote[ai.tasks[i].key] = result,
                        !.tasks[i].pc = "done",
                        !.tasks[i].result = result,
                        !.finished = Append(ai.finished, i)]
    /\ UNCHANGED outsideAi

\* Faulty variant: the results are collected as the tasks complete.
as_completed(tasks, finished) == [i \in 1..Len(tasks) |-> tasks[finished[i]].result]

\* asyncio.gather(*tasks) (line 326): the results in the order of the tasks.
gather(tasks, finished) == [i \in 1..Len(tasks) |-> tasks[i].result]

\* Lines 326-327: every task is done, the results are returned.
analyze_images_batch_return ==
    /\ ai.pc = "gather"
    /\ \A i \in 1..Len(ai.tasks) : ai.tasks[i].pc = "done"
    /\ ai' = [ai EXCEPT !.pc = "returned",
                        !.results = gather(ai.tasks, ai.finished)]
    /\ UNCHANGED outsideAi

\* AIServiceOptimizer.__init__ (lines 303-305), over an empty cache
AiInit ==
    ai = [store |-> [k \in ImageKeys |-> NoEntry],
          wrote |-> [k \in ImageKeys |-> PyNone],
          pc |-> "idle", batches |-> 0, paths |-> <<>>, tasks |-> <<>>,
          finished |-> <<>>, results |-> <<>>]

(***************************************************************************)
(* src/security_fixes.py: require_auth                                     *)
(***************************************************************************)

\* What a client sends as a token: its form (well-formed with a signature
\* made with JWT_SECRET_KEY, well-formed with another signature, signed with
\* an algorithm other than HS256, or no JWT at all), its exp claim (none,
\* in the future, in the past) and its user_id claim (none, or a user).
TokenForms == {"signed", "forged", "other_alg", "malformed"}
ExpClaims == {"none", "future", "past"}
UserClaims == {"none", "u1", "u2"}

Tokens == [form : TokenForms, exp : ExpClaims, user_id : UserClaims]

\* The Authorization header: absent, empty, or a token behind a prefix.
NoHeader == [present |-> FALSE, prefix |-> "", token |-> [form |-> "malformed", exp |-> "none", user_id |-> "none"]]
EmptyHeader == [NoHeader EXCEPT !.present = TRUE]

Headers ==
    {NoHeader, EmptyHeader} \cup
    {[present |-> TRUE, prefix |-> p, token |-> t] :
        p \in {"", "Bearer ", "bearer "}, t \in Tokens}

\* `not token` (line 126): the header is absent or empty.
no_token(header) == ~header.present \/ header = EmptyHeader

\* Lines 131-132: a leading 'Bearer ' is cut off.
remove_bearer(header) ==
    IF header.prefix = "Bearer " THEN [header EXCEPT !.prefix = ""] ELSE header

\* jwt.decode(token, JWT_SECRET_KEY, algorithms=['HS256']) (lines 134-138):
\* the text must be a JWT, its algorithm HS256 and its signature the key's
\* (InvalidTokenError otherwise), then exp, if there is one, must not have
\* passed (ExpiredSignatureError); the result is the payload.
jwt_decode(text) ==
    IF text.prefix # "" \/ text.token.form # "signed" THEN [raises |-> "InvalidTokenError"]
    ELSE IF text.token.exp = "past" THEN [raises |-> "ExpiredSignatureError"]
    ELSE [raises |-> "none"]

Unauthorized(error) == [status |-> "401", error |-> error, user_id |-> "none", handler |-> 0]

\* decorated_function (lines 123-146)
decorated_function ==
    /\ ~auth.done
    /\ LET header == auth.header
           decoded == jwt_decode(remove_bearer(header))
       IN auth' = [auth EXCEPT
              !.done = TRUE,
              !.response =
                  IF no_token(header) THEN Unauthorized("No token provided")
                  ELSE IF decoded.raises = "ExpiredSignatureError"
                       THEN Unauthorized("Token has expired")
                  ELSE IF decoded.raises = "InvalidTokenError"
                       THEN Unauthorized("Invalid token")
                  \* payload['user_id'] (line 139): KeyError is none of the
                  \* exceptions caught, and leaves the decorator.
                  ELSE IF header.token.user_id = "none"
                       THEN [status |-> "KeyError", error |-> "user_id",
                             user_id |-> "none", handler |-> 0]
                  ELSE [status |-> "handler", error |-> "none",
                        user_id |-> header.token.user_id, handler |-> 1]]
    /\ UNCHANGED outsideAuth

AuthIdle == auth = [done |-> TRUE, header |-> NoHeader, response |-> Unauthorized("none")]

CacheInit ==
    /\ store = [k \in StoreKeys |-> NoEntry]
    /\ hist = [k \in ResultKeys |-> NoHist]
    /\ now = 0
    /\ up = TRUE
    /\ call = [p \in Procs |-> IdleCall]
    /\ ncalls = 0

KeyIdle ==
    /\ kin = [a |-> [args |-> <<>>, kwargs |-> <<>>], b |-> [args |-> <<>>, kwargs |-> <<>>]]
    /\ kout = [done |-> TRUE, a |-> <<>>, b |-> <<>>, sa |-> <<>>, sb |-> <<>>]

\* The cache: callers of the decorated function, invalidation, other users
\* of the database, the clock and the connection.
\* The components besides the cache, the keys and the jobs, as constructed.
RestInit == MonInit /\ UploadIdle /\ EstimateIdle /\ SessionInit /\ AiInit /\ AuthIdle

Init == CacheInit /\ KeyIdle /\ JobInit /\ RestInit

Next ==
    \/ \E p \in Callers, inp \in CallInputs : Start(p, inp)
    \/ \E p \in Callers : Get(p)
    \/ \E p \in Callers, v \in ReturnValues : Compute(p, v)
    \/ \E p \in Callers : Setex(p)
    \/ \E p \in Callers : Return(p)
    \/ \E pattern \in Patterns : invalidate_pattern(pattern)
    \/ \E k \in {FlaskKey, OtherKey} : ExternalSet(k)
    \/ Tick
    \/ Disconnect
    \/ Reconnect

Spec == Init /\ [][Next]_vars

\* Concurrent callers of the decorated function, with a reachable server.
ConcNext ==
    \/ \E p \in Procs, inp \in CallInputs : Start(p, inp)
    \/ \E p \in Procs : Get(p)
    \/ \E p \in Procs, v \in ConcValues : Compute(p, v)
    \/ \E p \in Procs : Setex(p)
    \/ \E p \in Procs : Return(p)
    \/ Tick

ConcSpec == Init /\ [][ConcNext]_vars

\* Key derivation alone, over every pair of inputs within the bounds.
KeyInit ==
    /\ CacheInit
    /\ JobInit
    /\ RestInit
    /\ kin \in [a : KeyInputs, b : KeyInputs]
    /\ kout = NoKeys

KeyNext == DeriveKeys

KeySpec == KeyInit /\ [][KeyNext]_vars

\* The background jobs: submission, the workers' executions of the tasks.
JobNext ==
    \/ \E j \in JobIds, name \in TaskNames, n \in 0..MaxItems :
            /\ (name # "batch_process" => n = 0)
            /\ send_task(j, name, n)
    \/ \E j \in JobIds : PickUp(j)
    \/ \E j \in JobIds : process_image_update_state(j)
    \/ \E j \in JobIds, out \in Outcomes : analyze_image_with_ai(j, out)
    \/ \E j \in JobIds, out \in Outcomes : update_estimate_with_results(j, out)
    \/ \E j \in JobIds : process_image_return(j)
    \/ \E j \in JobIds : generate_pdf_update_state(j)
    \/ \E j \in JobIds, out \in Outcomes : generate_estimate_pdf(j, out)
    \/ \E j \in JobIds : generate_pdf_return(j)
    \/ \E j \in JobIds : batch_update_state(j)
    \/ \E j \in JobIds, out \in Outcomes : process_single_item(j, out)
    \/ \E j \in JobIds : batch_return(j)
    \/ \E j \in JobIds : JobTick(j)
    \/ \E j \in JobIds : SoftTimeLimitExceeded(j)

JobSpec == Init /\ [][JobNext]_vars

\* The same with at-least-once delivery of the task messages.
RedeliverNext == JobNext \/ \E j \in JobIds : Redeliver(j)

RedeliverSpec == Init /\ [][RedeliverNext]_vars

\* The monitor: scopes of one thread, nested or one after the other, and
\* queries of the statistics.
MonNext ==
    \/ \E name \in OperationNames : track_time_enter(name)
    \/ \E kind \in {"return", "raise"} : track_time_exit(kind)
    \/ MonTick
    \/ \E name \in OperationNames : GetStatistics(name)

MonSpec == Init /\ [][MonNext]_vars

\* validate_file_upload alone, over every file within the bounds.
UploadInit ==
    /\ CacheInit /\ KeyIdle /\ JobInit /\ MonInit /\ EstimateIdle /\ SessionInit /\ AiInit /\ AuthIdle
    /\ upload \in [done : {FALSE}, file : Files, result : {Invalid("none")}]

UploadNext == validate_file_upload

UploadSpec == UploadInit /\ [][UploadNext]_vars

\* validate_estimate_input alone, over the inputs around its limits.
EstimateInit ==
    /\ CacheInit /\ KeyIdle /\ JobInit /\ MonInit /\ UploadIdle /\ SessionInit /\ AiInit /\ AuthIdle
    /\ est \in [done : {FALSE}, raised : {"none"}, errors : {<<>>}, data : EstimateInputs]

EstimateNext == validate_estimate_input

EstimateSpec == EstimateInit /\ [][EstimateNext]_vars

\* The sessions: the with-blocks and the exits of optimized_session.
SessionNext ==
    \/ \E s \in Sessions : session_enter(s)
    \/ \E s \in Sessions, kind \in {"return", "raise"} : session_block_exit(s, kind)
    \/ \E s \in Sessions, ok \in BOOLEAN : session_commit(s, ok)
    \/ \E s \in Sessions : session_except(s)
    \/ \E s \in Sessions : session_finally(s)

SessionSpec == Init /\ [][SessionNext]_vars

\* Batches of image analyses, one after the other, their tasks interleaved.
AiNext ==
    \/ \E paths \in PathLists : analyze_images_batch(paths)
    \/ \E i \in 1..MaxPaths : return_cached(i)
    \/ \E i \in 1..MaxPaths : call_ai_service(i)
    \/ \E i \in 1..MaxPaths, result \in AiResults : analyze_single_image_resume(i, result)
    \/ analyze_images_batch_return

AiSpec == Init /\ [][AiNext]_vars

\* require_auth alone, over every request within the sets above.
AuthInit ==
    /\ CacheInit /\ KeyIdle /\ JobInit /\ MonInit /\ UploadIdle /\ EstimateIdle
    /\ SessionInit /\ AiInit
    /\ auth \in [done : {FALSE}, header : Headers, response : {Unauthorized("none")}]

AuthNext == decorated_function

AuthSpec == AuthInit /\ [][AuthNext]_vars

(***************************************************************************)
(* Properties of the cache                                                 *)
(***************************************************************************)

PastRead(p) == call[p].pc \in {"compute", "setex", "done"}

\* C1: a call whose key holds an entry written by an earlier call, with the
\* TTL of that write not elapsed and no invalidation since, does not invoke
\* the wrapped function, whatever value the entry holds: it is served from
\* the cache.
C1_SecondCallServedFromCache ==
    \A p \in Procs :
        (PastRead(p) /\ call[p].live) =>
            (call[p].pc = "done" /\ call[p].computed = 0)

\* The keys invalidate(pattern) is to remove: the results cached under a key
\* that matches the pattern, and the keys under the application's prefix
\* that match it.
Targeted(pattern, k) ==
    \/ (k \in ResultKeys /\ GlobMatch(pattern, k))
    \/ GlobMatch(AppNamespace \o pattern, k)

\* C2: after invalidate_pattern(pattern) every entry whose key matches the
\* pattern, those written by cache_result included, is absent, and every
\* other entry is unchanged.
C2_InvalidateRemovesMatching ==
    [][\A pattern \in Patterns :
          invalidate_pattern(pattern) =>
              \A k \in StoreKeys :
                  IF Targeted(pattern, k) THEN ~store'[k].set
                  ELSE store'[k] = store[k]]_vars

\* C3: two inputs with the same positional sequence and the same named
\* pairs, in whatever order the pairs were inserted, get the same key.
C3_KeyIndependentOfOrder ==
    (kout.done /\ kin.a.args = kin.b.args /\ SameMapping(kin.a.kwargs, kin.b.kwargs))
        => kout.a = kout.b

C3_Witness ==
    /\ kout.done
    /\ kin.a.args = kin.b.args
    /\ Len(kin.a.args) > 0
    /\ SameMapping(kin.a.kwargs, kin.b.kwargs)
    /\ Len(kin.a.kwargs) = 2
    /\ kin.a.kwargs # kin.b.kwargs
    /\ kout.a = get_cache_key(kin.b.args, kin.b.kwargs)

\* C4: two inputs that differ in content hand different strings to the
\* digest, and so get different keys.
C4_DifferentInputsDifferentKeys ==
    (kout.done /\ ~SameContent(kin.a, kin.b))
        => (kout.sa # kout.sb /\ kout.a # kout.b)

\* C5: a cache hit returns a value equal to the one the populating miss
\* stored, for every value the function can return.
C5_HitReturnsStoredValue ==
    \A p \in Procs :
        (call[p].pc = "done" /\ call[p].outcome \in {"hit", "EvalError"}) =>
            (call[p].outcome = "hit" /\ call[p].ret = call[p].orig)

\* C6: an entry is readable exactly from its last set until the TTL given
\* at that set has elapsed, and then holds the value of that set; a call
\* that finds its entry expired recomputes once and writes once.
C6_EntryReadableWithinTTL ==
    /\ \A k \in ResultKeys :
          /\ redis_get(store, k).some <=> (hist[k].set /\ now < hist[k].at + Timeout)
          /\ redis_get(store, k).some => redis_get(store, k).v = str(hist[k].orig)
    /\ \A p \in Procs :
          (call[p].pc = "done" /\ call[p].stale /\ call[p].outcome # "ConnectionError")
              => (call[p].outcome = "miss" /\ call[p].computed = 1 /\ call[p].writes = 1)

\* A call found its entry expired, recomputed, and its fresh entry is in the
\* store with a full TTL ahead.
C6_Witness ==
    \E p \in Procs :
        /\ call[p].pc = "done"
        /\ call[p].stale
        /\ call[p].outcome = "miss"
        /\ store[call[p].key].set
        /\ store[call[p].key].exp = now + Timeout
        /\ now >= Timeout

\* C7: no call ends with the store's failure: an unreachable server is a
\* miss, and the caller gets the computed result.
C7_StoreFailureNotPropagated ==
    \A p \in Procs : call[p].pc = "done" => call[p].outcome # "ConnectionError"

\* C8: a call writes the cache at most once, a hit never and a miss once
\* after one computation; the entry in the store is the one of the last
\* write.
C8_OneWritePerMissLastWins ==
    /\ \A p \in Procs :
          /\ call[p].pc # "idle" => (call[p].writes <= 1 /\ call[p].computed <= 1)
          /\ (call[p].pc = "done" /\ call[p].outcome = "hit")
                => (call[p].writes = 0 /\ call[p].computed = 0)
          /\ (call[p].pc = "done" /\ call[p].outcome = "miss")
                => (call[p].writes = 1 /\ call[p].computed = 1)
    /\ \A k \in ResultKeys :
          store[k].set =>
              /\ store[k].val = str(hist[k].orig)
              /\ store[k].exp = hist[k].at + Timeout

\* Two calls with the same arguments both missed while the other was between
\* its read and its write, computed different results, and both have written.
C8_Witness ==
    \E p \in Procs, q \in Procs :
        /\ p # q
        /\ call[p].pc = "done" /\ call[q].pc = "done"
        /\ call[p].outcome = "miss" /\ call[q].outcome = "miss"
        /\ call[p].key = call[q].key
        /\ call[q].overlap
        /\ call[p].ret # call[q].ret
        /\ hist[call[p].key].by = q
        /\ store[call[p].key].val = str(call[q].ret)

(***************************************************************************)
(* Properties of the jobs                                                  *)
(***************************************************************************)

Terminal(state) == state \in {"SUCCESS", "FAILURE"}

\* C9: once a job is SUCCEEDED or FAILED, no state transition and no
\* progress update changes its stored state, result or error detail.
C9_TerminalStateImmutable ==
    [][\A j \in JobIds : Terminal(jobs[j].state) => jobs'[j] = jobs[j]]_vars

\* The state of the design's job state machine that a backend state stands
\* for: the worker's STARTED and the tasks' own PROCESSING and GENERATING
\* are the states of a job that is running.
JobState(j) ==
    CASE jobs[j].state = "PENDING" -> "QUEUED"
      [] jobs[j].state \in {"STARTED", "PROCESSING", "GENERATING"} -> "RUNNING"
      [] jobs[j].state = "SUCCESS" -> "SUCCEEDED"
      [] jobs[j].state = "FAILURE" -> "FAILED"
      [] OTHER -> "UNKNOWN"

\* C10: the state of a job is always one of QUEUED, RUNNING, SUCCEEDED and
\* FAILED; it is QUEUED from its submission until a worker first picks it
\* up, RUNNING exactly while its task executes, and SUCCEEDED or FAILED
\* when the execution has ended; a return value is stored exactly with
\* SUCCEEDED and an error exactly with FAILED.
C10_JobStateFollowsExecution ==
    \A j \in JobIds :
        /\ JobState(j) \in {"QUEUED", "RUNNING", "SUCCEEDED", "FAILED"}
        /\ exec[j].runs = 0 <=> JobState(j) = "QUEUED"
        /\ Executing(j) <=> JobState(j) = "RUNNING"
        /\ exec[j].pc = "finished" => JobState(j) \in {"SUCCEEDED", "FAILED"}
        /\ jobs[j].result.kind = "return" <=> JobState(j) = "SUCCEEDED"
        /\ jobs[j].result.kind = "error" <=> JobState(j) = "FAILED"

\* A batch is executing its second item with its progress published, beside
\* a job that has failed.
C10_Witness ==
    \E j \in JobIds, k \in JobIds :
        /\ exec[j].name = "batch_process" /\ exec[j].pc = "item"
        /\ jobs[j].state = "PROCESSING" /\ jobs[j].result = Meta(2, 2)
        /\ exec[k].pc = "finished" /\ jobs[k].state = "FAILURE"
        /\ jobs[k].result.kind = "error"


SideEffectTasks == {"process_image", "generate_pdf"}

\* C11: a job whose attempt failed on a transient error is attempted again
\* under the same job id: it does not end FAILED before it has been attempted
\* more than once (and its side effect is applied at most once).
C11_TransientFailureRetried ==
    \A j \in JobIds :
        /\ exec[j].applied <= 1
        /\ (exec[j].name \in SideEffectTasks /\ exec[j].pc = "finished"
               /\ exec[j].cause = "transient")
              => exec[j].runs > 1

\* C12: a process_image or generate_pdf task that raises a permanent error
\* takes its job from RUNNING to FAILED in that step, with the error and no
\* 'completed' result stored, and the task is attempted no further.
C12_PermanentFailureNotRetried ==
    \A j \in JobIds :
        (exec[j].name \in SideEffectTasks /\ exec[j].cause = "permanent") =>
            /\ exec[j].pc = "finished"
            /\ JobState(j) = "FAILED"
            /\ jobs[j].result = Raised
            /\ exec[j].runs = 1

\* A report generation failed for good beside an image job whose analysis
\* failed for good; neither applied its effect.
C12_Witness ==
    \E j \in JobIds, k \in JobIds :
        /\ exec[j].name = "generate_pdf" /\ exec[j].cause = "permanent"
        /\ exec[k].name = "process_image" /\ exec[k].cause = "permanent"
        /\ jobs[j].state = "FAILURE" /\ jobs[k].state = "FAILURE"
        /\ exec[j].applied = 0 /\ exec[k].applied = 0

Upto(k) == [x \in 1..k |-> x]

\* C13: a batch of N >= 1 items publishes the progress 1/N, 2/N, ... in
\* this order, each with total N, the status showing the last one published;
\* when it is SUCCEEDED all N have been published and the result holds the
\* N item results in the order of the input.
C13_BatchProgressOrderedComplete ==
    \A j \in JobIds :
        (exec[j].name = "batch_process" /\ exec[j].n >= 1) =>
            /\ exec[j].pub = Upto(Len(exec[j].pub))
            /\ Len(exec[j].pub) <= exec[j].n
            /\ jobs[j].state = "PROCESSING" =>
                  /\ Len(exec[j].pub) >= 1
                  /\ jobs[j].result = Meta(Len(exec[j].pub), exec[j].n)
            /\ jobs[j].state = "SUCCESS" =>
                  /\ exec[j].pub = Upto(exec[j].n)
                  /\ jobs[j].result.kind = "return"
                  /\ jobs[j].result.res = [x \in 1..exec[j].n |-> item_result(x - 1)]

\* A batch of the largest size has succeeded, beside one that is at its
\* first item.
C13_Witness ==
    \E j \in JobIds, k \in JobIds :
        /\ exec[j].name = "batch_process" /\ exec[j].n = MaxItems
        /\ jobs[j].state = "SUCCESS"
        /\ Len(jobs[j].result.res) = MaxItems
        /\ exec[j].pub = Upto(MaxItems)
        /\ exec[k].name = "batch_process" /\ exec[k].pc = "item"
        /\ jobs[k].result = Meta(1, exec[k].n)

\* C14: the soft limit is shorter than the hard limit; an execution that
\* has reached the hard limit has been abandoned, its job is FAILED with
\* the timeout as the cause and not SUCCEEDED, and no effect of a task is
\* ever applied at or after the limit.
C14_HardTimeLimitFails ==
    /\ task_soft_time_limit < task_time_limit
    /\ \A j \in JobIds :
          /\ ~exec[j].late
          /\ exec[j].t >= task_time_limit =>
                /\ exec[j].pc = "finished"
                /\ JobState(j) = "FAILED"
                /\ jobs[j].result = Raised
                /\ exec[j].cause = "timeout"

\* An image job was killed at the hard limit after its analysis had
\* returned and before the estimate was updated.
C14_Witness ==
    \E j \in JobIds :
        /\ exec[j].name = "process_image"
        /\ exec[j].t = task_time_limit
        /\ exec[j].cause = "timeout"
        /\ exec[j].applied = 0
        /\ jobs[j].state = "FAILURE"


(***************************************************************************)
(* Properties of the monitor                                               *)
(***************************************************************************)

\* The scopes of a name among the first k completed, in their order.
CompletedOf(name, k) ==
    LET IsOfName(e) == e.name = name
    IN SelectSeq(SubSeq(mon.completed, 1, k), IsOfName)

Durations(scopes) == [i \in 1..Len(scopes) |-> scopes[i].duration]

\* C15: the samples under a name are the durations of the completed scopes
\* of that name, in the order of completion, whether their blocks returned
\* or raised: each exit appends one sample to its name and touches nothing
\* else.  The block's exception leaves the scope as it came, and a slow
\* operation is warned about and nothing more.
C15_TrackTimeRecordsEveryExit ==
    /\ \A name \in OperationNames :
          Samples(mon.metrics, name) = Durations(CompletedOf(name, Len(mon.completed)))
    /\ \A i \in 1..Len(mon.completed) :
          /\ mon.completed[i].leaves = mon.completed[i].kind
          /\ mon.completed[i].warned <=> mon.completed[i].duration > SlowSeconds

\* A slow block that raised was recorded after an earlier sample of the same
\* name, beside a sample of the other name.
C15_Witness ==
    \E i \in 1..Len(mon.completed) :
        /\ mon.completed[i].kind = "raise"
        /\ mon.completed[i].warned
        /\ i = Len(mon.completed)
        /\ Len(Samples(mon.metrics, mon.completed[i].name)) >= 2
        /\ Samples(mon.metrics, mon.completed[i].name)
              [Len(Samples(mon.metrics, mon.completed[i].name))] = mon.completed[i].duration
        /\ \E other \in OperationNames \ {mon.completed[i].name} : other \in DOMAIN mon.metrics

\* C16: get_statistics(name) returns the empty mapping if no scope of the
\* name had completed; otherwise count is the number of completed scopes,
\* total their sum, min and max the least and the greatest of them, and
\* average total / count, between min and max.  The samples are as before.
C16_StatisticsOfCompletedScopes ==
    mon.stat.asked =>
        LET ds == Durations(CompletedOf(mon.stat.name, mon.stat.at))
            st == mon.stat.stats
        IN /\ IF ds = <<>> THEN st = EmptyDict
              ELSE /\ DOMAIN st = {"count", "total", "average", "min", "max"}
                   /\ st.count = Len(ds)
                   /\ st.total = py_sum(ds)
                   /\ \E i \in 1..Len(ds) : st.min = ds[i]
                   /\ \E i \in 1..Len(ds) : st.max = ds[i]
                   /\ \A i \in 1..Len(ds) : st.min <= ds[i] /\ ds[i] <= st.max
                   /\ st.average = Quotient(st.total, st.count)
                   /\ st.min * st.count <= st.total
                   /\ st.total <= st.max * st.count
           /\ Len(mon.completed) = mon.stat.at
                 => Samples(mon.metrics, mon.stat.name) = ds

\* The statistics of three samples, the first of them neither the least nor
\* the greatest.
C16_Witness ==
    /\ mon.stat.asked
    /\ mon.stat.stats # EmptyDict
    /\ mon.stat.stats.count = 3
    /\ mon.stat.stats.min < mon.metrics[mon.stat.name][1]
    /\ mon.metrics[mon.stat.name][1] < mon.stat.stats.max
    /\ mon.stat.at = Len(mon.completed)


(***************************************************************************)
(* Properties of the validators                                            *)
(***************************************************************************)

\* The ways of writing an extension among the pieces of the names.
Spellings(ext) ==
    CASE ext = "jpeg" -> {"jpeg", "JPEG"}
      [] OTHER -> {ext}

\* The name ends in a dot and one of the allowed words, in any case.
ExtensionAllowed(name) ==
    /\ Len(name) >= 2
    /\ name[Len(name) - 1] = "."
    /\ \E ext \in {"png", "jpg", "jpeg", "gif", "pdf"} : name[Len(name)] \in Spellings(ext)

\* The reason of the first check that fails, in the order of the checks.
FirstFailure(file) ==
    IF ~file.present \/ file.filename = <<>> THEN "No file provided"
    ELSE IF secure_filename(file.filename) = <<>> THEN "Invalid filename"
    ELSE IF ~ExtensionAllowed(secure_filename(file.filename)) THEN "File type not allowed"
    ELSE IF file.size > MAX_FILE_SIZE THEN "File size exceeds limit"
    ELSE "none"

\* C17: validate_file_upload returns (True, sanitized filename) exactly when
\* a file is provided, its sanitized name is not empty and ends in an
\* allowed extension in any case, and its size is at most 10 MB; otherwise
\* (False, reason of the first failing check); the file is at position 0
\* afterwards.
C17_UploadValidation ==
    upload.done =>
        /\ upload.result.valid <=> FirstFailure(upload.file) = "none"
        /\ upload.result.valid => upload.result.text = secure_filename(upload.file.filename)
        /\ ~upload.result.valid => upload.result.text = <<FirstFailure(upload.file)>>
        /\ upload.file.pos = 0

\* A file of exactly 10 MB named with a path and an upper-case extension
\* was accepted under its sanitized name.
C17_Witness ==
    /\ upload.done
    /\ upload.result.valid
    /\ upload.file.filename = <<"/", "photo", ".", "JPEG">>
    /\ upload.result.text = <<"photo", ".", "JPEG">>
    /\ upload.file.size = MAX_FILE_SIZE
    /\ upload.file.pos = 0


\* The rules of an estimate's input, as the messages word them.
NamedAndShort(value, limit) == value.k = "str" /\ value.n > 0 /\ value.n < limit

HoursInRange(value) ==
    \/ value.k = "absent"
    \/ value.k = "number" /\ value.n >= 0 /\ value.n <= LaborHoursLimit

\* C18: validate_estimate_input returns a list of errors, the empty one
\* exactly when project_name and description are present and not empty,
\* project_name has fewer than 200 and description fewer than 1000
\* characters, and labor_hours, if present, is a number from 0 to 10000.
C18_EstimateInputValidation ==
    est.done =>
        /\ est.raised = "none"
        /\ est.errors = <<>> <=>
              /\ NamedAndShort(est.data.project_name, ProjectNameLimit)
              /\ NamedAndShort(est.data.description, DescriptionLimit)
              /\ HoursInRange(est.data.labor_hours)


(***************************************************************************)
(* Properties of the database session                                      *)
(***************************************************************************)

C20_BatchResultsInInputOrder ==
    /\ \A i \in 1..Len(ai.tasks) :
          /\ ai.tasks[i].found <=> ai.tasks[i].kind = "return_cached"
          /\ ai.tasks[i].found => ai.tasks[i].calls = 0
          /\ ai.tasks[i].pc = "done" =>
                IF ai.tasks[i].found
                THEN ai.tasks[i].result = ai.tasks[i].expect
                ELSE /\ ai.tasks[i].calls = 1
                     /\ ai.store[ai.tasks[i].key].set
                     /\ ai.store[ai.tasks[i].key].exp = 24 * 60 * 60
                     /\ \E k \in 1..Len(ai.tasks) :
                           /\ ai.tasks[k].key = ai.tasks[i].key
                           /\ ai.tasks[k].pc = "done"
                           /\ ai.store[ai.tasks[i].key].val = str(ai.tasks[k].result)
    /\ ai.pc = "returned" =>
          /\ Len(ai.results) = Len(ai.paths)
          /\ \A i \in 1..Len(ai.paths) :
                /\ ai.tasks[i].key = image_cache_key(ai.paths[i])
                /\ ai.results[i] = ai.tasks[i].result

\* A batch of a cached and an uncached image has returned; the uncached one
\* was answered first, and the results differ.
C20_Witness ==
    /\ ai.pc = "returned"
    /\ Len(ai.paths) = 2
    /\ ai.tasks[1].found /\ ~ai.tasks[2].found
    /\ ai.finished = <<2, 1>>
    /\ ai.results[1] # ai.results[2]
    /\ ai.results[1] = ai.tasks[1].expect
    /\ ai.tasks[1].calls = 0 /\ ai.tasks[2].calls = 1


(***************************************************************************)
(* Properties of the authentication                                        *)
(***************************************************************************)

\* The token behind an optional 'Bearer ': a JWT signed with the key under
\* HS256 whose exp, if any, has not passed.
ValidToken(header) ==
    /\ header.present
    /\ header.prefix \in {"", "Bearer "}
    /\ header.token.form = "signed"
    /\ header.token.exp # "past"

\* C21: a request ends in the handler or in a 401 response; in the handler
\* only with a valid, unexpired HS256 token, request.user_id set from it;
\* in 401 'No token provided' without a header, 'Token has expired' with an
\* expired token and 'Invalid token' with an invalid one, the handler not
\* invoked.
C21_RequireAuthGuardsHandler ==
    auth.done =>
        /\ auth.response.status \in {"handler", "401"}
        /\ auth.response.status = "handler" =>
              /\ ValidToken(auth.header)
              /\ auth.response.user_id = auth.header.token.user_id
        /\ auth.response.status = "401" => auth.response.handler = 0
        /\ ~auth.header.present => auth.response.error = "No token provided"


(***************************************************************************)
(* Progress of a batch against the items processed                         *)
(***************************************************************************)

\* The last progress an execution has published, 0 if none.
PublishedCurrent(j) ==
    IF exec[j].pub = <<>> THEN 0 ELSE exec[j].pub[Len(exec[j].pub)]

\* C22: the progress of a batch counts the items started: the items
\* processed are at most the published current, which is at most one more,
\* and exactly one more while an item is being processed; if processing an
\* item raises, the job is FAILED with the published current one above the
\* items processed; an empty batch publishes nothing and succeeds with an
\* empty result list.
C22_ProgressCountsItemsStarted ==
    \A j \in JobIds :
        exec[j].name = "batch_process" =>
            /\ Len(exec[j].res) <= PublishedCurrent(j)
            /\ PublishedCurrent(j) <= Len(exec[j].res) + 1
            /\ exec[j].pc = "item" => PublishedCurrent(j) = Len(exec[j].res) + 1
            /\ (exec[j].pc = "finished" /\ exec[j].cause \in {"transient", "permanent"}) =>
                  /\ jobs[j].state = "FAILURE"
                  /\ PublishedCurrent(j) >= 1
                  /\ Len(exec[j].res) = PublishedCurrent(j) - 1
            /\ exec[j].n = 0 =>
                  /\ exec[j].pub = <<>>
                  /\ (exec[j].pc = "finished" /\ exec[j].cause = "none") =>
                        /\ jobs[j].state = "SUCCESS"
                        /\ jobs[j].result = ReturnedResults(<<>>, 0)

\* A batch failed at its second item with 2/N published and one item
\* processed, beside an empty batch that has succeeded.
C22_Witness ==
    \E j \in JobIds, k \in JobIds :
        /\ exec[j].name = "batch_process" /\ exec[j].pc = "finished"
        /\ exec[j].cause = "permanent"
        /\ exec[j].pub = <<1, 2>> /\ Len(exec[j].res) = 1
        /\ jobs[j].state = "FAILURE"
        /\ exec[k].name = "batch_process" /\ exec[k].n = 0
        /\ jobs[k].state = "SUCCESS" /\ jobs[k].result.res = <<>>

=============================================================================
